---- MODULE Spec2Model ----
(*************************************************************************)
(* Block layout of WeasyPrint (weasy/layout/blocks.py): the width        *)
(* constraint solver block_level_width, and the page-by-page layout      *)
(* block_level_layout / block_box_layout / block_level_height with its   *)
(* resume cursor (skip_stack).                                           *)
(*                                                                       *)
(* Lengths are integers counted in half pixels; specified lengths are    *)
(* whole pixels (even numbers), so that the float division               *)
(* `margin_sum / 2.` of the source is exact in the model.                *)
(*************************************************************************)
EXTENDS Integers, Sequences, FiniteSets, TLC

VARIABLES
    box0,       \* the input box tree as built upstream, before any layout
    box,        \* the input box tree handed to block_level_layout (mutated in place)
    cursor,     \* the skip_stack returned by the last call (None before the first)
    prevcursor, \* the skip_stack the last call was given
    lastlog,    \* the children started by the last call, with their cursors
    lasterr,    \* the exception the last call raised ("" when it returned)
    ncalls,     \* the number of threaded page calls made so far
    pages,      \* the output boxes of the threaded page calls, in call order
    pc,         \* "start", "paging", "done", "failed", "repeated" ("idle": unused)
    lastmax,    \* max_position_y of the last call
    again,      \* result of laying the same box out a second time from the start
    wbox,       \* width solver: the box whose width is solved
    wcb,        \* width solver: containing-block width of the last layout
    wdir,       \* width solver: direction of the parent's style
    wentry,     \* width solver: the box as block_level_width last received it
    wspec,      \* width solver: the box as originally specified
    wlog        \* width solver: the containing-block widths of the layouts so far

vars == <<box0, box, cursor, prevcursor, lastlog, lasterr, ncalls, pages, pc,
          lastmax, again,
          wbox, wcb, wdir, wentry, wspec, wlog>>

pageVars == <<box0, box, cursor, prevcursor, lastlog, lasterr, ncalls, pages, pc,
              lastmax, again>>
widthVars == <<wbox, wcb, wdir, wentry, wspec, wlog>>

-----------------------------------------------------------------------------
(* Bounds *)

\* specified lengths of the width solver are 0, 2, .. 2 * MaxLen half pixels
MaxLen == 2
\* containing-block widths are 0, 4, .. 4 * MaxCb half pixels
MaxCb == 2
\* number of layouts of one box in the width solver specification
MaxRuns == 3
\* line fragments of one inline content, and the height of one fragment
MaxLines == 3
MaxLineHeight == 2
\* max_position_y of a page is 0 .. MaxY
MaxY == 5

-----------------------------------------------------------------------------
(* Values of a geometry field: 'auto', a length, or a percentage *)

Auto == [k |-> "auto", v |-> 0]
Length(n) == [k |-> "len", v |-> n]
Percentage(p) == [k |-> "pct", v |-> p]

None == <<>>

-----------------------------------------------------------------------------
(* Width *)

\* percentages.resolve_percentages for the horizontal fields: a percentage
\* becomes a length of the containing block's width, anything else is kept
resolve_one_percentage(value, refer_to) ==
    IF value.k = "pct" THEN Length((value.v * refer_to) \div 100) ELSE value

resolve_percentages(b, cb_width) ==
    [b EXCEPT !.margin_left = resolve_one_percentage(@, cb_width),
              !.margin_right = resolve_one_percentage(@, cb_width),
              !.width = resolve_one_percentage(@, cb_width)]

paddings_plus_borders(b) ==
    b.padding_left + b.padding_right + b.border_left_width + b.border_right_width

\* blocks.py 98-108: the sum of the fixed parts, and auto margins forced to 0
\* when it exceeds the containing block
overflowing_total(b, cb_width) ==
    /\ b.width # Auto
    /\ paddings_plus_borders(b) + b.width.v
         + (IF b.margin_left # Auto THEN b.margin_left.v ELSE 0)
         + (IF b.margin_right # Auto THEN b.margin_right.v ELSE 0) > cb_width

\* (force_auto_margins_never leaves the auto margins to the later steps)
force_auto_margins_never(b, cb_width) == b

force_auto_margins(b, cb_width) ==
    IF overflowing_total(b, cb_width)
    THEN [b EXCEPT !.margin_left = IF @ = Auto THEN Length(0) ELSE @,
                   !.margin_right = IF @ = Auto THEN Length(0) ELSE @]
    ELSE b

\* blocks.py 115: the direction of the parent's style (is_ltr_swapped takes
\* the other side for the line end)
is_ltr_swapped(direction) == direction = "rtl"

is_ltr(direction) == direction = "ltr"

\* blocks.py 109-118: the over-constrained equation (over_constrained_same_side
\* subtracts the margin it replaces instead of the opposite one)
over_constrained_same_side(b, cb_width, direction) ==
    IF b.width # Auto /\ b.margin_left # Auto /\ b.margin_right # Auto
    THEN LET margin_sum == cb_width - paddings_plus_borders(b) - b.width.v
         IN  IF is_ltr(direction)
             THEN [b EXCEPT !.margin_right = Length(margin_sum - b.margin_right.v)]
             ELSE [b EXCEPT !.margin_left = Length(margin_sum - b.margin_left.v)]
    ELSE b

over_constrained(b, cb_width, direction) ==
    IF b.width # Auto /\ b.margin_left # Auto /\ b.margin_right # Auto
    THEN LET margin_sum == cb_width - paddings_plus_borders(b) - b.width.v
         IN  IF is_ltr(direction)
             THEN [b EXCEPT !.margin_right = Length(margin_sum - b.margin_left.v)]
             ELSE [b EXCEPT !.margin_left = Length(margin_sum - b.margin_right.v)]
    ELSE b

\* blocks.py 119-125: an auto width fills the remaining space
\* (auto_width_beside_padding leaves the margins out of the subtraction)
auto_width_beside_padding(b, cb_width) ==
    IF b.width = Auto
    THEN LET margin_l == IF b.margin_left = Auto THEN Length(0) ELSE b.margin_left
             margin_r == IF b.margin_right = Auto THEN Length(0) ELSE b.margin_right
         IN  [b EXCEPT !.margin_left = margin_l,
                       !.margin_right = margin_r,
                       !.width = Length(cb_width - paddings_plus_borders(b))]
    ELSE b

auto_width(b, cb_width) ==
    IF b.width = Auto
    THEN LET margin_l == IF b.margin_left = Auto THEN Length(0) ELSE b.margin_left
             margin_r == IF b.margin_right = Auto THEN Length(0) ELSE b.margin_right
         IN  [b EXCEPT !.margin_left = margin_l,
                       !.margin_right = margin_r,
                       !.width = Length(cb_width - (paddings_plus_borders(b)
                                                   + margin_l.v + margin_r.v))]
    ELSE b

\* blocks.py 126-133: the remaining auto margins take the slack
\* (auto_margins_whole_slack gives a single auto margin all of margin_sum)
auto_margins_whole_slack(b, cb_width) ==
    LET margin_sum == cb_width - paddings_plus_borders(b) - b.width.v
    IN  IF b.margin_left = Auto /\ b.margin_right = Auto
        THEN [b EXCEPT !.margin_left = Length(margin_sum \div 2),
                       !.margin_right = Length(margin_sum \div 2)]
        ELSE IF b.margin_left = Auto /\ b.margin_right # Auto
        THEN [b EXCEPT !.margin_left = Length(margin_sum)]
        ELSE IF b.margin_left # Auto /\ b.margin_right = Auto
        THEN [b EXCEPT !.margin_right = Length(margin_sum)]
        ELSE b

auto_margins(b, cb_width) ==
    LET margin_sum == cb_width - paddings_plus_borders(b) - b.width.v
    IN  IF b.margin_left = Auto /\ b.margin_right = Auto
        THEN [b EXCEPT !.margin_left = Length(margin_sum \div 2),
                       !.margin_right = Length(margin_sum \div 2)]
        ELSE IF b.margin_left = Auto /\ b.margin_right # Auto
        THEN [b EXCEPT !.margin_left = Length(margin_sum - b.margin_right.v)]
        ELSE IF b.margin_left # Auto /\ b.margin_right = Auto
        THEN [b EXCEPT !.margin_right = Length(margin_sum - b.margin_left.v)]
        ELSE b

\* blocks.py 76-133
block_level_width(b, cb_width, direction) ==
    auto_margins(
        auto_width(
            over_constrained(force_auto_margins(b, cb_width), cb_width, direction),
            cb_width),
        cb_width)

-----------------------------------------------------------------------------
(* Width solver specification: one box laid out again and again *)

SpecifiedLengths == {Length(2 * i) : i \in 0..MaxLen}
SpecifiedMargins == {Auto, Length(-2), Percentage(50)} \cup SpecifiedLengths
SpecifiedWidths == {Auto, Percentage(50)} \cup SpecifiedLengths
CbWidths == {4 * i : i \in 0..MaxCb}
Directions == {"ltr", "rtl"}

WidthBox(ml, mr, w, pl, pr, bl, br) ==
    [margin_left |-> ml, margin_right |-> mr, width |-> w,
     padding_left |-> pl, padding_right |-> pr,
     border_left_width |-> bl, border_right_width |-> br]

NoBox == WidthBox(Auto, Auto, Auto, 0, 0, 0, 0)

WidthIdle ==
    /\ wbox = NoBox /\ wspec = NoBox /\ wentry = NoBox
    /\ wcb = 0 /\ wdir = "ltr" /\ wlog = <<>>

PageIdle ==
    /\ box0 = None /\ box = None /\ cursor = None /\ prevcursor = None
    /\ lastlog = <<>> /\ lasterr = "" /\ ncalls = 0 /\ pages = <<>>
    /\ pc = "idle" /\ lastmax = 0 /\ again = None

WidthInit ==
    /\ \E ml \in SpecifiedMargins, mr \in SpecifiedMargins, w \in SpecifiedWidths,
          pl \in {0, 2}, bl \in {0, 2} :
          /\ wbox = WidthBox(ml, mr, w, pl, 0, bl, 0)
          /\ wspec = wbox
          /\ wentry = wbox
    /\ wdir \in Directions
    /\ wcb = 0
    /\ wlog = <<>>
    /\ PageIdle

\* block_box_layout, lines 51-52, with the containing block W wide
LayoutWidth(W) ==
    /\ Len(wlog) < MaxRuns
    /\ wcb' = W
    /\ wentry' = resolve_percentages(wbox, W)
    /\ wbox' = block_level_width(wentry', W, wdir)
    /\ wlog' = Append(wlog, W)
    /\ UNCHANGED <<wspec, wdir>>
    /\ UNCHANGED pageVars

WidthNext == \E W \in CbWidths : LayoutWidth(W)

SpecWidth == WidthInit /\ [][WidthNext]_vars

-----------------------------------------------------------------------------
(* Properties of the width solver, checked under SpecWidth *)

Solved(b) ==
    /\ b.margin_left.k = "len" /\ b.margin_right.k = "len" /\ b.width.k = "len"

AllFixed(b) == b.margin_left # Auto /\ b.margin_right # Auto /\ b.width # Auto

HorizontalSum(b) ==
    b.margin_left.v + b.border_left_width + b.padding_left + b.width.v
        + b.padding_right + b.border_right_width + b.margin_right.v

\* C5: after block_level_width returns, margin-left, margin-right and width
\* are all lengths and, with the paddings and borders, they add up to the
\* containing-block width exactly, whatever was auto or fixed on entry and
\* whatever the parent's direction.
C5_WidthEquation ==
    wlog # <<>> => Solved(wbox) /\ HorizontalSum(wbox) = wcb

\* the over-constrained case in a right-to-left parent: everything was fixed
\* on entry and did not add up
C5_Witness ==
    /\ Len(wlog) = 1 /\ wdir = "rtl" /\ AllFixed(wentry)
    /\ HorizontalSum(wentry) # wcb
    /\ wentry.padding_left > 0 /\ wentry.border_left_width > 0

\* C8, as claimed: what a layout leaves in width, margin-left and margin-right
\* is what one layout of a never-laid-out box with the same specified values
\* in the same containing block leaves, whatever the earlier layouts were.
C8_PathIndependent ==
    wlog # <<>> =>
        wbox = block_level_width(resolve_percentages(wspec, wcb), wcb, wdir)

\* C9: a second run of block_level_width with the same containing-block width
\* and direction leaves width, margin-left and margin-right as the first run
\* left them (wentry is the box the earlier run left).
C9_Idempotent ==
    (Len(wlog) >= 2 /\ wlog[Len(wlog)] = wlog[Len(wlog) - 1]) =>
        /\ wbox.width = wentry.width
        /\ wbox.margin_left = wentry.margin_left
        /\ wbox.margin_right = wentry.margin_right

\* a second run in the same containing block, on a box whose margin was auto
\* and whose other margin is not zero
C9_Witness ==
    /\ Len(wlog) = 2 /\ wlog[1] = wlog[2]
    /\ wspec.width # Auto /\ wspec.margin_left = Auto
    /\ wspec.margin_right.k = "len" /\ wspec.margin_right.v # 0
    /\ wbox.margin_left.v # 0

\* C10: when width and both margins are fixed on entry, the width and the
\* line-start margin keep their values and the line-end margin (right in a
\* ltr parent, left otherwise) becomes the containing-block width minus
\* paddings, borders, width and the other margin.
C10_OverConstrained ==
    (wlog # <<>> /\ AllFixed(wentry)) =>
        /\ wbox.width = wentry.width
        /\ wdir = "ltr" =>
              /\ wbox.margin_left = wentry.margin_left
              /\ wbox.margin_right =
                    Length(wcb - paddings_plus_borders(wentry)
                               - wentry.width.v - wentry.margin_left.v)
        /\ wdir # "ltr" =>
              /\ wbox.margin_right = wentry.margin_right
              /\ wbox.margin_left =
                    Length(wcb - paddings_plus_borders(wentry)
                               - wentry.width.v - wentry.margin_right.v)

\* all fixed on entry in a ltr parent, and the specified margin-right is
\* discarded
C10_Witness ==
    /\ Len(wlog) = 1 /\ wdir = "ltr" /\ AllFixed(wentry)
    /\ wentry.margin_left.v # wentry.margin_right.v
    /\ wbox.margin_right # wentry.margin_right

\* the sum of the parts that are fixed on entry (blocks.py 98-104)
FixedTotal(b) ==
    paddings_plus_borders(b) + b.width.v
        + (IF b.margin_left # Auto THEN b.margin_left.v ELSE 0)
        + (IF b.margin_right # Auto THEN b.margin_right.v ELSE 0)

\* the slack left beside the paddings, the borders and the width
Slack(b) == wcb - paddings_plus_borders(b) - b.width.v

\* C11: with an auto width, every auto margin becomes 0, every fixed margin
\* keeps its value and the width becomes the containing-block width minus
\* paddings, borders and both margins; with a fixed width whose total with
\* paddings, borders and fixed margins fits the containing block, the width is
\* kept, two auto margins each take half of the slack, and a single auto margin
\* takes the slack left by the other margin, which keeps its value.
C11_AutoWidthAndSlack ==
    wlog # <<>> =>
        /\ wentry.width = Auto =>
              /\ wbox.margin_left =
                    (IF wentry.margin_left = Auto THEN Length(0)
                                                  ELSE wentry.margin_left)
              /\ wbox.margin_right =
                    (IF wentry.margin_right = Auto THEN Length(0)
                                                   ELSE wentry.margin_right)
              /\ wbox.width = Length(wcb - paddings_plus_borders(wentry)
                                         - wbox.margin_left.v - wbox.margin_right.v)
        /\ (wentry.width # Auto /\ FixedTotal(wentry) <= wcb) =>
              /\ wbox.width = wentry.width
              /\ (wentry.margin_left = Auto /\ wentry.margin_right = Auto) =>
                    /\ 2 * wbox.margin_left.v = Slack(wentry)
                    /\ 2 * wbox.margin_right.v = Slack(wentry)
                    /\ wbox.margin_left.k = "len" /\ wbox.margin_right.k = "len"
              /\ (wentry.margin_left = Auto /\ wentry.margin_right # Auto) =>
                    /\ wbox.margin_right = wentry.margin_right
                    /\ wbox.margin_left =
                          Length(Slack(wentry) - wentry.margin_right.v)
              /\ (wentry.margin_left # Auto /\ wentry.margin_right = Auto) =>
                    /\ wbox.margin_left = wentry.margin_left
                    /\ wbox.margin_right =
                          Length(Slack(wentry) - wentry.margin_left.v)

\* an auto width beside a fixed margin that is not zero, an auto margin and
\* a padding
C11_Witness ==
    /\ Len(wlog) = 1 /\ wentry.width = Auto
    /\ wentry.margin_left # Auto /\ wentry.margin_left.v > 0
    /\ wentry.margin_right = Auto
    /\ wentry.padding_left > 0
    /\ wbox.width.v > 0

\* C18: with a fixed width whose total with paddings, borders and fixed
\* margins exceeds the containing block, in a ltr parent an auto margin-left
\* ends as 0 and margin-right ends as the containing-block width minus
\* paddings, borders, width and margin-left, whether it was auto or fixed;
\* in a rtl parent the two sides are exchanged.
C18_OverflowingAutoMargins ==
    (wlog # <<>> /\ wentry.width # Auto /\ FixedTotal(wentry) > wcb) =>
        /\ wdir = "ltr" =>
              /\ wentry.margin_left = Auto => wbox.margin_left = Length(0)
              /\ wbox.margin_right =
                    Length(Slack(wentry) - wbox.margin_left.v)
        /\ wdir = "rtl" =>
              /\ wentry.margin_right = Auto => wbox.margin_right = Length(0)
              /\ wbox.margin_left =
                    Length(Slack(wentry) - wbox.margin_right.v)

\* a width wider than the containing block in a ltr parent, with margin-right
\* auto on entry and negative on return
C18_Witness ==
    /\ Len(wlog) = 1 /\ wdir = "ltr"
    /\ wentry.width # Auto /\ FixedTotal(wentry) > wcb
    /\ wentry.margin_left # Auto /\ wentry.margin_left.v > 0
    /\ wentry.margin_right = Auto
    /\ wbox.margin_right.k = "len" /\ wbox.margin_right.v < 0

-----------------------------------------------------------------------------
(* Boxes of the page layout *)

\* boxes.BlockBox: geometry, style and an ordered sequence of children
BlockBox(id, ml, mr, w, h, mt, pt, marker, flow, overflow, kids) ==
    [type |-> "BlockBox", id |-> id,
     margin_left |-> ml, margin_right |-> mr, width |-> w, height |-> h,
     margin_top |-> mt, margin_bottom |-> Auto,
     padding_left |-> 2 * pt, padding_right |-> 0,
     border_left_width |-> 0, border_right_width |-> 0,
     padding_top |-> pt, padding_bottom |-> 0,
     border_top_width |-> 0, border_bottom_width |-> 0,
     position_x |-> 0, position_y |-> 0,
     overflow |-> overflow, direction |-> "ltr",
     outside_list_marker |-> marker,
     in_normal_flow |-> flow,
     children |-> kids]

\* a box whose position no layout has written yet (the root is placed
\* upstream, every other box by the layout of its parent)
Unplaced(b) == [b EXCEPT !.position_x = -1, !.position_y = -1]

\* boxes.LineBox: the inline content of a block; lines are the heights of the
\* line fragments its content breaks into
LineBox(id, lines) ==
    [type |-> "LineBox", id |-> id, lines |-> lines,
     position_x |-> -1, position_y |-> -1, in_normal_flow |-> TRUE]

\* boxes.BlockLevelReplacedBox: intrinsic media, no children
BlockLevelReplacedBox(id, w, h, mt) ==
    [type |-> "BlockLevelReplacedBox", id |-> id,
     margin_left |-> Auto, margin_right |-> Auto, width |-> w, height |-> h,
     margin_top |-> mt, margin_bottom |-> Auto,
     padding_left |-> 0, padding_right |-> 0,
     border_left_width |-> 0, border_right_width |-> 0,
     padding_top |-> 0, padding_bottom |-> 0,
     border_top_width |-> 0, border_bottom_width |-> 0,
     position_x |-> -1, position_y |-> -1,
     intrinsic_width |-> 2, intrinsic_height |-> 2,
     in_normal_flow |-> TRUE]

\* any other box, here an inline-level box met where a block-level one is due
InlineBox(id) ==
    [type |-> "InlineBox", id |-> id,
     position_x |-> -1, position_y |-> -1, in_normal_flow |-> TRUE]

\* the marker of a list item, before markers.list_marker_layout placed it
ListMarker == <<[type |-> "marker", position_x |-> 0, position_y |-> 0,
                 laid_out |-> FALSE]>>

content_box_x(b) ==
    b.position_x + b.margin_left.v + b.padding_left + b.border_left_width

content_box_y(b) ==
    b.position_y + b.margin_top.v + b.padding_top + b.border_top_width

margin_height(b) ==
    b.height.v + b.padding_top + b.padding_bottom
        + b.border_top_width + b.border_bottom_width
        + b.margin_top.v + b.margin_bottom.v

\* markers.list_marker_layout: the marker of the box, if any, gets its place
list_marker_layout(b) ==
    IF b.outside_list_marker = None THEN b
    ELSE [b EXCEPT !.outside_list_marker =
              <<[@[1] EXCEPT !.position_x = b.position_x,
                             !.position_y = b.position_y,
                             !.laid_out = TRUE]>>]

\* inlines.replaced_box_width / replaced_box_height: an auto size becomes the
\* intrinsic one
replaced_box_width(b) ==
    IF b.width = Auto THEN [b EXCEPT !.width = Length(b.intrinsic_width)] ELSE b

replaced_box_height(b) ==
    IF b.height = Auto THEN [b EXCEPT !.height = Length(b.intrinsic_height)] ELSE b

\* blocks.py 68-71 and 143-146
auto_vertical_margins(b) ==
    [b EXCEPT !.margin_top = IF @ = Auto THEN Length(0) ELSE @,
              !.margin_bottom = IF @ = Auto THEN Length(0) ELSE @]

-----------------------------------------------------------------------------
(* The line-fragment producer *)

\* a cursor is None or a pair <<index, nested cursor>>; the cursor of the line
\* producer is the pair <<index of the next fragment, None>>
LineCursor(n) == <<n, None>>

\* inlines.get_next_linebox: the next line fragment of the inline content at
\* the cursor, and the cursor after it (None with the last fragment)
get_next_linebox(linebox, position_y, skip_stack) ==
    LET at == IF skip_stack = None THEN 0 ELSE skip_stack[1]
    IN  IF at >= Len(linebox.lines)
        THEN [line |-> None, resume_at |-> None]
        ELSE [line |-> <<[type |-> "line", of |-> linebox.id, index |-> at,
                          height |-> linebox.lines[at + 1],
                          position_x |-> linebox.position_x,
                          position_y |-> position_y]>>,
              resume_at |-> IF at + 1 < Len(linebox.lines)
                            THEN LineCursor(at + 1) ELSE None]

-----------------------------------------------------------------------------
(* Layout *)

\* the state of the loop over the children in block_level_height
LoopState(b, position_y, skip_stack) ==
    [box |-> b, new_children |-> <<>>, position_y |-> position_y,
     skip_stack |-> skip_stack, resume_at |-> None, is_page_break |-> FALSE,
     err |-> "", log |-> <<>>]

Result(out, resume_at, inp, err, log) ==
    [out |-> out, resume_at |-> resume_at, inp |-> inp, err |-> err, log |-> log]

\* blocks.py 180: a line that ends below the page breaks it, unless it is the
\* first line of this inline content in this call (breaks_page_at_bottom
\* also breaks before a line that ends at max_position_y, breaks_page_first_too
\* does not keep the first line)
breaks_page_at_bottom(new_position_y, max_position_y, first) ==
    new_position_y >= max_position_y /\ ~first

breaks_page_first_too(new_position_y, max_position_y, first) ==
    new_position_y > max_position_y

breaks_page(new_position_y, max_position_y, first) ==
    new_position_y > max_position_y /\ ~first

\* blocks.py 182: resume before the line that did not fit
\* (page_break_cursor_restart forgets how far the inline content got)
page_break_cursor_restart(index, skip_stack) == <<index, None>>

page_break_cursor(index, skip_stack) == <<index, skip_stack>>

RECURSIVE lines_loop(_, _, _, _, _)
\* blocks.py 171-190
lines_loop(child, index, st, first, max_position_y) ==
    LET got == get_next_linebox(child, st.position_y, st.skip_stack)
        logged == [st EXCEPT !.log = Append(@, [ev |-> "line", id |-> child.id,
                                                 skip_stack |-> st.skip_stack])]
    IN  IF got.line = None
        THEN logged
        ELSE LET new_position_y == st.position_y + got.line[1].height
             IN  IF breaks_page(new_position_y, max_position_y, first)
                 THEN [logged EXCEPT !.resume_at = page_break_cursor(index, st.skip_stack),
                                     !.is_page_break = TRUE]
                 ELSE LET added == [logged EXCEPT
                                       !.new_children = Append(@, got.line[1]),
                                       !.position_y = new_position_y]
                      IN  IF got.resume_at = None
                          THEN added
                          ELSE lines_loop(child, index,
                                          [added EXCEPT !.skip_stack = got.resume_at],
                                          FALSE, max_position_y)

RECURSIVE block_level_layout(_, _, _, _, _)
RECURSIVE children_loop(_, _, _, _)

\* blocks.py 205: the cursor of a block child that did not finish
\* (block_break_cursor_next resumes at the following sibling instead)
block_break_cursor_next(index, resume_at) == <<index + 1, None>>

block_break_cursor(index, resume_at) == <<index, resume_at>>

\* blocks.py 196: the nested cursor is consumed by the block child
after_block_child(skip_stack) == None

\* blocks.py 160-208
children_loop(st, index, position_x, max_position_y) ==
    IF index >= Len(st.box.children)
    THEN [st EXCEPT !.resume_at = None]
    ELSE
    LET child == st.box.children[index + 1]
    IN  IF ~child.in_normal_flow
        THEN children_loop(st, index + 1, position_x, max_position_y)
        ELSE
        LET placed == [child EXCEPT !.position_x = position_x,
                                    !.position_y = st.position_y]
            st1 == [st EXCEPT !.box.children[index + 1] = placed]
        IN  IF child.type = "LineBox"
            THEN LET r == lines_loop(placed, index, st1, TRUE, max_position_y)
                 IN  IF r.is_page_break
                     THEN r
                     ELSE children_loop(r, index + 1, position_x, max_position_y)
            ELSE LET res == block_level_layout(placed, st.box.width.v,
                                               st.box.direction, max_position_y,
                                               st.skip_stack)
                     st2 == [st1 EXCEPT
                                !.box.children[index + 1] = res.inp,
                                !.log = Append(@, [ev |-> "layout", id |-> child.id,
                                                   skip_stack |-> st.skip_stack])
                                        \o res.log]
                 IN  IF res.err # ""
                     THEN [st2 EXCEPT !.err = res.err]
                     ELSE
                     LET st3 == [st2 EXCEPT
                                    !.skip_stack = after_block_child(@),
                                    !.new_children = Append(@, res.out[1]),
                                    !.position_y = @ + margin_height(res.out[1])]
                     IN  IF res.resume_at # None
                         THEN [st3 EXCEPT !.resume_at =
                                             block_break_cursor(index, res.resume_at)]
                         ELSE children_loop(st3, index + 1, position_x,
                                            max_position_y)

\* blocks.py 215: the marker stays on new_box only (clear_marker_kept leaves
\* it on the input box)
clear_marker_kept(b) == b

clear_marker(b) == [b EXCEPT !.outside_list_marker = None]

\* blocks.py 210-211: an auto height is the way the content went
\* (content_height_absolute forgets where the content started)
content_height_absolute(height, position_y, initial_position_y) ==
    IF height = Auto THEN Length(position_y) ELSE height

content_height(height, position_y, initial_position_y) ==
    IF height = Auto THEN Length(position_y - initial_position_y) ELSE height

\* blocks.py 152-153 and 210-215: new_box is a copy, so the height and the
\* children of the page go to the copy and the input box only loses its marker
\* (box_after_call_aliased writes the height of new_box to the input as well)
box_after_call_aliased(inp, new_box) ==
    clear_marker([inp EXCEPT !.height = new_box.height])

box_after_call(inp, new_box) == clear_marker(inp)

\* blocks.py 140: only visible overflow is laid out (overflow_supported_any
\* lays out every box)
overflow_supported_any(b) == TRUE

overflow_supported(b) == b.overflow = "visible"

\* blocks.py 136-216
block_level_height(b, max_position_y, skip_stack) ==
    IF ~overflow_supported(b)
    THEN Result(None, None, b, "NotImplementedError", <<>>)
    ELSE
    LET b1 == auto_vertical_margins(b)
        position_x == content_box_x(b1)
        initial_position_y == content_box_y(b1)
        new_box == [b1 EXCEPT !.children = <<>>]
        skip == IF skip_stack = None THEN 0 ELSE skip_stack[1]
        nested == IF skip_stack = None THEN None ELSE skip_stack[2]
        st == children_loop(LoopState(b1, initial_position_y, nested), skip,
                            position_x, max_position_y)
    IN  IF st.err # ""
        THEN Result(None, None, st.box, st.err, st.log)
        ELSE
        LET height == content_height(new_box.height, st.position_y,
                                     initial_position_y)
            page_box == [new_box EXCEPT !.children = st.new_children,
                                        !.height = height]
        IN  Result(<<page_box>>, st.resume_at, box_after_call(st.box, page_box),
                   "", st.log)

\* blocks.py 49-54
block_box_layout(b, cb_width, direction, max_position_y, skip_stack) ==
    block_level_height(
        list_marker_layout(
            block_level_width(resolve_percentages(b, cb_width), cb_width, direction)),
        max_position_y, skip_stack)

\* blocks.py 57-73 (block_replaced_box_layout_auto_kept returns without the
\* two assignments of lines 68-71)
block_replaced_box_layout_auto_kept(b, cb_width, direction) ==
    replaced_box_height(
        block_level_width(replaced_box_width(resolve_percentages(b, cb_width)),
                          cb_width, direction))

block_replaced_box_layout(b, cb_width, direction) ==
    auto_vertical_margins(
        replaced_box_height(
            block_level_width(replaced_box_width(resolve_percentages(b, cb_width)),
                              cb_width, direction)))

\* blocks.py 33-46 (block_level_layout_lenient returns any other box as it
\* is instead of raising)
block_level_layout_lenient(b, cb_width, direction, max_position_y, skip_stack) ==
    IF b.type = "BlockBox"
    THEN block_box_layout(b, cb_width, direction, max_position_y, skip_stack)
    ELSE IF b.type = "BlockLevelReplacedBox"
    THEN LET laid == block_replaced_box_layout(b, cb_width, direction)
         IN  Result(<<laid>>, None, laid, "", <<>>)
    ELSE Result(<<b>>, None, b, "", <<>>)

block_level_layout(b, cb_width, direction, max_position_y, skip_stack) ==
    IF b.type = "BlockBox"
    THEN block_box_layout(b, cb_width, direction, max_position_y, skip_stack)
    ELSE IF b.type = "BlockLevelReplacedBox"
    THEN LET laid == block_replaced_box_layout(b, cb_width, direction)
         IN  Result(<<laid>>, None, laid, "", <<>>)
    ELSE Result(None, None, b, "TypeError", <<>>)


-----------------------------------------------------------------------------
(* Page layout specification: the pipeline lays one box tree out page by     *)
(* page, threading the cursor                                                *)

\* width of the page area, the containing block of the root box
PageWidth == 4 * MaxCb

LineSeqs(n) == UNION {[1..k -> 1..MaxLineHeight] : k \in 0..n}

\* styles of a block: margins, width, height, margin-top, padding-top
Styles == {"plain", "centred", "fixed"}

Styled(style, id, marker, flow, overflow, kids) ==
    IF style = "plain"
    THEN BlockBox(id, Auto, Auto, Auto, Auto, Auto, 0, marker, flow, overflow, kids)
    ELSE IF style = "centred"
    THEN BlockBox(id, Auto, Auto, Length(4), Auto, Length(1), 1, marker, flow,
                  overflow, kids)
    ELSE BlockBox(id, Length(2), Auto, Auto, Length(2), Auto, 0, marker, flow,
                  overflow, kids)

\* root style, child style, marker on the root, marker on the first block child
Decors == {<<"plain", "plain", None, None>>,
           <<"centred", "plain", ListMarker, None>>,
           <<"plain", "centred", None, ListMarker>>,
           <<"fixed", "fixed", ListMarker, ListMarker>>}

Root(d, kids) == Styled(d[1], 0, d[3], TRUE, "visible", kids)
Child(d, id, kids) ==
    Unplaced(Styled(d[2], id, IF id = 1 THEN d[4] ELSE None, TRUE, "visible", kids))
Floated(id) ==
    Unplaced(Styled("plain", id, None, FALSE, "visible",
                    <<LineBox(10 * id + 1, <<1>>)>>))
Hidden(style, id, kids) == Styled(style, id, None, TRUE, "hidden", kids)

\* the line heights of a second inline content of the tree
FewLines == {<<>>, <<1>>, <<2, 1>>}

\* trees whose boxes are all laid out by this module
FlowTrees ==
    {Root(d, <<LineBox(1, a)>>) : d \in Decors, a \in LineSeqs(MaxLines)}
    \cup {Root(d, <<Floated(1), LineBox(2, a)>>) :
              d \in Decors, a \in LineSeqs(MaxLines)}
    \cup {Root(d, <<LineBox(1, a), Child(d, 2, <<LineBox(21, b)>>)>>) :
              d \in Decors, a \in LineSeqs(MaxLines - 1), b \in FewLines}
    \cup {Root(d, <<Child(d, 1, <<LineBox(11, a)>>), LineBox(2, b)>>) :
              d \in Decors, a \in LineSeqs(MaxLines - 1), b \in FewLines}
    \cup {Root(d, <<Child(d, 1, <<LineBox(11, a)>>), Child(d, 2, <<LineBox(21, b)>>)>>) :
              d \in Decors, a \in LineSeqs(MaxLines - 1), b \in FewLines}
    \cup {Root(d, <<BlockLevelReplacedBox(1, w, Auto, Auto), LineBox(2, a)>>) :
              d \in Decors, a \in LineSeqs(1), w \in {Auto, Length(4)}}
    \cup {Root(d, <<Child(d, 1, <<LineBox(11, a),
                                  BlockLevelReplacedBox(12, Auto, Length(4), Length(1))>>),
                    Child(d, 2, <<LineBox(21, a)>>)>>) :
              d \in Decors, a \in LineSeqs(MaxLines - 1)}

\* a replaced box laid out on its own; the page places it at the origin
ReplacedRoots ==
    {[BlockLevelReplacedBox(0, w, h, mt) EXCEPT !.position_x = 0, !.position_y = 0] :
         w \in {Auto, Length(4)}, h \in {Auto, Length(4)}, mt \in {Auto, Length(1)}}

\* trees with a box this module does not lay out
UnsupportedTrees ==
    {Hidden(style, 0, <<LineBox(1, a)>>) : style \in {"plain", "centred"},
                                           a \in LineSeqs(1)}
    \cup {Hidden("plain", 0, <<Child(d, 1, <<LineBox(11, a)>>)>>) :
              d \in Decors, a \in LineSeqs(1)}
    \cup {InlineBox(0)}
    \cup {Root(d, <<LineBox(1, a), InlineBox(2)>>) : d \in Decors, a \in LineSeqs(2)}
    \cup {Root(d, <<Child(d, 1, <<LineBox(11, a)>>),
                    Unplaced(Hidden("plain", 2, <<LineBox(21, a)>>))>>) :
              d \in Decors, a \in LineSeqs(2)}
    \cup {Root(d, <<Child(d, 1, <<InlineBox(11)>>), LineBox(2, a)>>) :
              d \in Decors, a \in LineSeqs(1)}

PageInit ==
    /\ box0 \in FlowTrees \cup ReplacedRoots \cup UnsupportedTrees
    /\ box = box0
    /\ cursor = None /\ prevcursor = None /\ lastlog = <<>>
    /\ lasterr = "" /\ ncalls = 0
    /\ pages = <<>>
    /\ pc = "start"
    /\ lastmax = 0
    /\ again = None
    /\ WidthIdle

\* more pages than any tree here has fragments
MaxPages == 2 * MaxLines + 2

\* the pipeline lays out the next page: block_level_layout on the root box
\* with the cursor of the previous page
LayoutPage(max_position_y) ==
    /\ pc \in {"start", "paging"}
    /\ Len(pages) < MaxPages
    /\ LET res == block_level_layout(box, PageWidth, "ltr", max_position_y, cursor)
       IN  /\ box' = res.inp
           /\ lastlog' = res.log
           /\ lasterr' = res.err
           /\ ncalls' = ncalls + 1
           /\ prevcursor' = cursor
           /\ lastmax' = max_position_y
           /\ IF res.err # ""
              THEN /\ pc' = "failed"
                   /\ UNCHANGED <<cursor, pages>>
              ELSE /\ pages' = Append(pages, res.out[1])
                   /\ cursor' = res.resume_at
                   /\ pc' = IF res.resume_at = None THEN "done" ELSE "paging"
    /\ UNCHANGED <<box0, again>>
    /\ UNCHANGED widthVars

\* the same box is laid out a second time from the start, with the
\* max_position_y of the first layout
LayoutAgain ==
    /\ pc \in {"paging", "done"}
    /\ Len(pages) = 1
    /\ LET res == block_level_layout(box, PageWidth, "ltr", lastmax, None)
       IN  /\ box' = res.inp
           /\ lastlog' = res.log
           /\ lasterr' = res.err
           /\ again' = <<[out |-> res.out, resume_at |-> res.resume_at,
                          err |-> res.err]>>
    /\ pc' = "repeated"
    /\ UNCHANGED <<box0, cursor, prevcursor, ncalls, pages, lastmax>>
    /\ UNCHANGED widthVars

PageNext ==
    \/ \E max_position_y \in 0..MaxY : LayoutPage(max_position_y)
    \/ LayoutAgain

-----------------------------------------------------------------------------
(* What the pages hold, and what the tree has to give *)

RECURSIVE Concat(_)
Concat(seqs) == IF seqs = <<>> THEN <<>> ELSE Head(seqs) \o Concat(Tail(seqs))

Max(S) == CHOOSE m \in S : \A n \in S : n <= m

RECURSIVE SumOf(_, _, _)
SumOf(h, from, to) == IF from > to THEN 0 ELSE h[from] + SumOf(h, from + 1, to)

\* the line fragments of an output box, in the order of its tree
RECURSIVE PlacedLines(_)
PlacedLines(out) ==
    IF out.type = "line" THEN <<<<out.of, out.index>>>>
    ELSE IF out.type = "BlockBox"
    THEN Concat([i \in 1..Len(out.children) |-> PlacedLines(out.children[i])])
    ELSE <<>>

PlacedInPages == Concat([p \in 1..Len(pages) |-> PlacedLines(pages[p])])

FragmentsFrom(linebox, at) ==
    [k \in 1..(IF at < Len(linebox.lines) THEN Len(linebox.lines) - at ELSE 0)
        |-> <<linebox.id, at + k - 1>>]

\* the line fragments of the normal-flow inline contents of an input box that
\* lie at or after a cursor, in document order
RECURSIVE Remaining(_, _)
Remaining(b, c) ==
    IF b.type = "LineBox" THEN FragmentsFrom(b, IF c = None THEN 0 ELSE c[1])
    ELSE IF b.type = "BlockBox"
    THEN LET skip == IF c = None THEN 0 ELSE c[1]
             nested == IF c = None THEN None ELSE c[2]
         IN  Concat([i \in 1..Len(b.children) |->
                 IF i - 1 < skip \/ ~b.children[i].in_normal_flow THEN <<>>
                 ELSE Remaining(b.children[i], IF i - 1 = skip THEN nested ELSE None)])
    ELSE <<>>

AllFragments(b) == Remaining(b, None)

\* every box the layout of the tree reaches is a BlockBox with visible
\* overflow, a BlockLevelReplacedBox or a LineBox
RECURSIVE Supported(_)
Supported(b) ==
    IF b.type = "BlockBox"
    THEN /\ b.overflow = "visible"
         /\ \A i \in 1..Len(b.children) :
                b.children[i].in_normal_flow => Supported(b.children[i])
    ELSE b.type \in {"LineBox", "BlockLevelReplacedBox"}

FlowChildren(b) == {i \in 1..Len(b.children) : b.children[i].in_normal_flow}

\* the only normal-flow child of the block is inline content
OnlyInline(b) ==
    /\ b.type = "BlockBox" /\ b.overflow = "visible"
    /\ Cardinality(FlowChildren(b)) = 1
    /\ \A i \in FlowChildren(b) : b.children[i].type = "LineBox"

\* the output boxes made for the input box `id`, in the order of the tree
RECURSIVE OutputsOf(_, _)
OutputsOf(id, out) ==
    IF out.type # "BlockBox" THEN <<>>
    ELSE (IF out.id = id THEN <<out>> ELSE <<>>)
         \o Concat([i \in 1..Len(out.children) |-> OutputsOf(id, out.children[i])])

\* the input boxes `id` of a tree
RECURSIVE InputsOf(_, _)
InputsOf(id, b) ==
    IF b.type # "BlockBox" THEN <<>>
    ELSE (IF b.id = id THEN <<b>> ELSE <<>>)
         \o Concat([i \in 1..Len(b.children) |-> InputsOf(id, b.children[i])])

\* an output box without the markers of its blocks
RECURSIVE WithoutMarkers(_)
WithoutMarkers(out) ==
    IF out.type # "BlockBox" THEN out
    ELSE [out EXCEPT !.outside_list_marker = None,
                     !.children = [i \in 1..Len(out.children) |->
                                      WithoutMarkers(out.children[i])]]

RECURSIVE CarriesMarker(_)
CarriesMarker(out) ==
    /\ out.type = "BlockBox"
    /\ \/ out.outside_list_marker # None
       \/ \E i \in 1..Len(out.children) : CarriesMarker(out.children[i])

\* every box of a tree (input or output), the root first
RECURSIVE Boxes(_)
Boxes(b) ==
    <<b>> \o (IF b.type = "BlockBox"
              THEN Concat([i \in 1..Len(b.children) |-> Boxes(b.children[i])])
              ELSE <<>>)

BoxSet(b) == {Boxes(b)[i] : i \in 1..Len(Boxes(b))}

\* the input box `id` of a tree
BoxOf(b, id) == CHOOSE x \in BoxSet(b) : x.id = id

\* the boxes of a tree by identity; a placed line fragment is not a box
Ids(b) == {x.id : x \in {y \in BoxSet(b) : y.type # "line"}}

\* the children a cursor addresses, level after level, each with the cursor
\* it is to be resumed with
RECURSIVE CursorPath(_, _)
CursorPath(b, c) ==
    IF c = None \/ b.type # "BlockBox" \/ c[1] >= Len(b.children) THEN <<>>
    ELSE LET child == b.children[c[1] + 1]
         IN  <<[id |-> child.id, type |-> child.type, index |-> c[1],
                skip_stack |-> c[2]]>> \o CursorPath(child, c[2])

\* the start events of the last call: a child handed to block_level_layout
StartedWithLayout == {i \in 1..Len(lastlog) : lastlog[i].ev = "layout"}

-----------------------------------------------------------------------------
(* Properties of the page layout, checked under Spec *)

\* C1, as claimed: when the threaded calls end with a None cursor, the line
\* fragments in the outputs, page after page, are the line fragments of the
\* normal-flow inline contents of the tree, each once and in document order.
C1_EveryFragmentOnce ==
    (pc = "done" /\ Supported(box0)) => PlacedInPages = AllFragments(box0)

\* C2: in a call on a block whose only normal-flow child is inline content,
\* the fragments placed are the longest run from the resume point whose
\* bottoms are all <= max_position_y (a bottom equal to it fits), or one
\* fragment when the first does not fit; the cursor returned is (index of the
\* inline child, cursor after the last placed fragment) when fragments
\* remain, None otherwise.
C2_LongestFittingRun ==
    (OnlyInline(box0) /\ pages # <<>>) =>
        LET out == pages[Len(pages)]
            i == CHOOSE i \in FlowChildren(box0) : TRUE
            h == box0.children[i].lines
            at == IF prevcursor = None THEN 0 ELSE prevcursor[2][1]
            Bottom(n) == content_box_y(out) + SumOf(h, at + 1, at + n)
            fit == {n \in 1..(Len(h) - at) : \A m \in 1..n : Bottom(m) <= lastmax}
            count == IF at >= Len(h) THEN 0
                     ELSE IF fit = {} THEN 1 ELSE Max(fit)
        IN  /\ PlacedLines(out) =
                  [k \in 1..count |-> <<box0.children[i].id, at + k - 1>>]
            /\ cursor = IF at + count < Len(h)
                        THEN <<i - 1, LineCursor(at + count)>> ELSE None

\* two fragments fit, the second ending exactly at max_position_y, and a
\* third is left for the next page
C2_Witness ==
    /\ OnlyInline(box0) /\ Len(pages) = 1
    /\ Len(pages[1].children) = 2
    /\ pages[1].children[2].position_y + pages[1].children[2].height = lastmax
    /\ cursor # None

\* C3: a call that starts where at least one line fragment is left to
\* produce does not fail and places at least one line fragment, whatever
\* max_position_y is.
C3_ForwardProgress ==
    Supported(box0) =>
        /\ pc # "failed"
        /\ (pages # <<>> /\ Remaining(box0, prevcursor) # <<>>) =>
               PlacedLines(pages[Len(pages)]) # <<>>
        /\ (again # None /\ AllFragments(box0) # <<>>) =>
               again[1].err = "" /\ PlacedLines(again[1].out[1]) # <<>>

\* a resumed call whose first fragment ends below max_position_y, which is
\* itself above the top of the content area
C3_Witness ==
    /\ Len(pages) = 2 /\ prevcursor # None
    /\ lastmax < content_box_y(pages[2])
    /\ Len(PlacedLines(pages[2])) = 1
    /\ cursor # None

\* C4: the threaded calls end with a None cursor after at most as many calls
\* as the tree has line fragments (one call when it has none): a call that
\* returns a cursor is not yet the last the fragments allow, so the next call
\* can be made and the calls cannot go on for ever.
C4_Terminates ==
    Supported(box0) =>
        /\ Len(pages) <= Max({1, Len(AllFragments(box0))})
        /\ cursor # None => /\ Len(pages) < Len(AllFragments(box0))
                            /\ Len(pages) < MaxPages
        /\ pc = "done" <=> (pages # <<>> /\ cursor = None /\ again = None)

\* as many pages as fragments: every page overflows
C4_Witness ==
    /\ pc = "done" /\ Len(pages) = MaxLines
    /\ Len(AllFragments(box0)) = MaxLines

MarkedIds == {0, 1}

\* C7: of the output boxes made, page after page, for one input box that
\* carries a marker, the first carries the marker and no other does, and the
\* input box has no marker after a call laid it out.
C7_MarkerOnce ==
    \A id \in MarkedIds :
        LET outs == Concat([p \in 1..Len(pages) |-> OutputsOf(id, pages[p])])
            was == InputsOf(id, box0)
            now == InputsOf(id, box)
        IN  (was # <<>> /\ was[1].outside_list_marker # None /\ outs # <<>>) =>
                /\ outs[1].outside_list_marker # None
                /\ outs[1].outside_list_marker[1].laid_out
                /\ \A k \in 2..Len(outs) : outs[k].outside_list_marker = None
                /\ now[1].outside_list_marker = None

\* a nested list item whose content is spread over two pages
C7_Witness ==
    /\ Len(pages) = 2
    /\ LET was == InputsOf(1, box0)
       IN  was # <<>> /\ was[1].outside_list_marker # None
    /\ OutputsOf(1, pages[1]) # <<>> /\ OutputsOf(1, pages[2]) # <<>>

ReplacedOutputs ==
    UNION {{o \in BoxSet(pages[p]) : o.type = "BlockLevelReplacedBox"} :
               p \in 1..Len(pages)}

\* C12: block_level_layout on a BlockLevelReplacedBox returns a None cursor
\* whatever max_position_y and the incoming cursor are, and returns the input
\* box itself, with margin-top and margin-bottom no longer auto (an auto one
\* is 0).
C12_ReplacedNeverResumes ==
    /\ \A o \in ReplacedOutputs :
          /\ o.margin_top.k = "len" /\ o.margin_bottom.k = "len"
          /\ BoxOf(box0, o.id).margin_top = Auto => o.margin_top = Length(0)
          /\ BoxOf(box0, o.id).margin_top # Auto =>
                o.margin_top = BoxOf(box0, o.id).margin_top
          /\ BoxOf(box0, o.id).margin_bottom = Auto => o.margin_bottom = Length(0)
          /\ o = BoxOf(box, o.id)
    /\ \A i \in 1..Len(CursorPath(box0, cursor)) :
          CursorPath(box0, cursor)[i].type # "BlockLevelReplacedBox"
    /\ (box0.type = "BlockLevelReplacedBox" /\ ncalls > 0) =>
          /\ lasterr = "" /\ cursor = None /\ pages = <<box>>

\* a page that breaks at a max_position_y above the bottom of a replaced
\* child, which was handed the cursor left by the inline content before it
C12_Witness ==
    /\ Len(pages) = 1 /\ pc = "paging"
    /\ \E i \in StartedWithLayout :
          /\ BoxOf(box0, lastlog[i].id).type = "BlockLevelReplacedBox"
          /\ lastlog[i].skip_stack # None
          /\ \E o \in ReplacedOutputs :
                /\ o.id = lastlog[i].id
                /\ o.position_y + margin_height(o) > lastmax

HiddenBoxes ==
    {x \in BoxSet(box0) : x.type = "BlockBox" /\ x.overflow # "visible"}

Reached(id) == \E i \in StartedWithLayout : lastlog[i].id = id

\* C13: the layout of a BlockBox whose overflow is not visible fails with
\* NotImplementedError before any child is processed: no position is written
\* to a child, no line fragment is requested, no nested layout call is made,
\* and the call returns neither an output box nor a cursor.
C13_OverflowFailsFirst ==
    \A h \in HiddenBoxes :
        /\ BoxOf(box, h.id).children = h.children
        /\ \A i \in 1..Len(lastlog) : lastlog[i].id \notin Ids(h) \ {h.id}
        /\ \A p \in 1..Len(pages) : h.id \notin Ids(pages[p])
        /\ (Reached(h.id) \/ (h.id = box0.id /\ ncalls > 0)) =>
              /\ pc = "failed" /\ lasterr = "NotImplementedError"
              /\ lastlog = <<>> \/ lastlog[Len(lastlog)].id = h.id
              /\ Len(pages) = ncalls - 1 /\ cursor = prevcursor

\* the second page reaches a block with hidden overflow and inline content,
\* after a first page that ended in the block before it
C13_Witness ==
    /\ pc = "failed" /\ Len(pages) = 1
    /\ \E h \in HiddenBoxes :
          /\ Reached(h.id)
          /\ BoxOf(box, h.id).position_y >= 0
          /\ Len(h.children) = 1 /\ h.children[1].type = "LineBox"
          /\ Len(h.children[1].lines) > 0

UnsupportedBoxes ==
    {x \in BoxSet(box0) :
        x.type \notin {"BlockBox", "BlockLevelReplacedBox", "LineBox"}}

\* C14: block_level_layout on a box that is neither a BlockBox nor a
\* BlockLevelReplacedBox fails with TypeError, and a failure raised in a
\* nested child that is reached aborts every enclosing call: nothing is
\* processed after it and the top-level call returns neither an output box
\* nor a cursor.
C14_FailureAbortsAll ==
    /\ \A u \in UnsupportedBoxes :
          (Reached(u.id) \/ (u.id = box0.id /\ ncalls > 0)) =>
              /\ pc = "failed" /\ lasterr = "TypeError"
              /\ lastlog = <<>> \/ lastlog[Len(lastlog)].id = u.id
    /\ \A h \in HiddenBoxes : Reached(h.id) => pc = "failed"
    /\ lasterr # "" =>
          /\ pc = "failed"
          /\ Len(pages) = ncalls - 1 /\ cursor = prevcursor
    /\ \A p \in 1..Len(pages) : \A u \in UnsupportedBoxes : u.id \notin Ids(pages[p])

\* an unsupported box two levels down, reached by the first call
C14_Witness ==
    /\ pc = "failed" /\ ncalls = 1 /\ pages = <<>> /\ cursor = None
    /\ Len(lastlog) >= 2
    /\ \E u \in UnsupportedBoxes :
          /\ Reached(u.id) /\ u.id # box0.id
          /\ \A i \in 1..Len(box0.children) : box0.children[i].id # u.id

\* the cursor the last call was given
CallCursor == IF pc = "repeated" THEN None ELSE prevcursor

\* the events of the last call that start a child: a block-level child handed
\* to block_level_layout, or the first line request of an inline child
ChildStarts ==
    {i \in 1..Len(lastlog) :
        \/ lastlog[i].ev = "layout"
        \/ /\ lastlog[i].ev = "line"
           /\ \A j \in 1..(i - 1) :
                 ~(lastlog[j].ev = "line" /\ lastlog[j].id = lastlog[i].id)}

\* C15, as claimed: within one call the nested cursor decoded from the
\* incoming cursor goes only to the child at the starting index, level after
\* level; every other normal-flow child that is processed is started with a
\* None cursor, also a child that follows an inline child from which two or
\* more fragments were placed.
C15_NestedCursorOnlyAtStart ==
    \A i \in ChildStarts :
        lastlog[i].skip_stack # None =>
            \E k \in 1..Len(CursorPath(box0, CallCursor)) :
                /\ CursorPath(box0, CallCursor)[k].id = lastlog[i].id
                /\ CursorPath(box0, CallCursor)[k].skip_stack = lastlog[i].skip_stack

LastPage == pages[Len(pages)]

\* the children after index `index` (0-based) of an input box
After(b, index) == {b.children[k] : k \in (index + 2)..Len(b.children)}

\* what one call level shows when the child its cursor names is a block: the
\* partial output of the child is the last child of the output, the nested
\* cursor is not None, and no sibling after the child was touched
RECURSIVE BlockBreak(_, _, _)
BlockBreak(b, out, c) ==
    LET child == b.children[c[1] + 1]
        last == out.children[Len(out.children)]
    IN  /\ c[1] < Len(b.children)
        /\ child.in_normal_flow
        /\ out.children # <<>>
        /\ \A sib \in After(b, c[1]) :
              /\ BoxOf(box, sib.id).position_x = -1
              /\ BoxOf(box, sib.id).position_y = -1
              /\ \A i \in 1..Len(lastlog) : lastlog[i].id \notin Ids(sib)
              /\ sib.id \notin Ids(out)
        /\ IF child.type = "LineBox"
           THEN /\ last.type = "line" /\ last.of = child.id
                /\ c[2] = LineCursor(last.index + 1)
           ELSE /\ last.type = "BlockBox" /\ last.id = child.id
                /\ c[2] # None
                /\ BlockBreak(child, last, c[2])

\* C16: when a nested block child at index i returns a cursor c that is not
\* None, the enclosing call appends the partial output of the child as the
\* last child of its output box, returns (i, c) and processes no sibling after
\* index i (none is positioned, laid out or added), whatever max_position_y
\* is and also when the output of the child ends past max_position_y.
C16_BlockChildBreak ==
    pc = "paging" =>
        /\ cursor[1] < Len(box0.children)
        /\ box0.children[cursor[1] + 1].type = "BlockBox" =>
              BlockBreak(box0, LastPage, cursor)

\* a block child that did not finish, whose partial output ends past
\* max_position_y, with a normal-flow sibling after it
C16_Witness ==
    /\ pc = "paging" /\ box0.children[cursor[1] + 1].type = "BlockBox"
    /\ \E sib \in After(box0, cursor[1]) : sib.in_normal_flow
    /\ LET last == LastPage.children[Len(LastPage.children)]
       IN  last.position_y + margin_height(last) > lastmax

BlockOutputs ==
    UNION {{o \in BoxSet(pages[p]) : o.type = "BlockBox"} : p \in 1..Len(pages)}

\* the height a child of an output box takes in it: the height of a line
\* fragment, the margin-inclusive height of a block-level child
OuterHeight(child) ==
    IF child.type = "line" THEN child.height ELSE margin_height(child)

ContentSum(out) ==
    SumOf([i \in 1..Len(out.children) |-> OuterHeight(out.children[i])],
          1, Len(out.children))

\* C17: the output box of an input box whose height is auto has as height the
\* sum of the heights of the line fragments placed in that call and of the
\* margin-inclusive heights of the block children appended in that call, on
\* the first page and on every resumed page; the output of an input box with
\* a fixed height has that height.
C17_ContentHeight ==
    \A o \in BlockOutputs :
        IF BoxOf(box0, o.id).height = Auto
        THEN o.height = Length(ContentSum(o))
        ELSE o.height = BoxOf(box0, o.id).height

\* a resumed page whose box has an auto height, starts below the top of the
\* page, and holds both a block child and a line fragment
C17_Witness ==
    /\ Len(pages) >= 2
    /\ box0.height = Auto /\ content_box_y(LastPage) > 0
    /\ \E i, j \in 1..Len(LastPage.children) :
          /\ LastPage.children[i].type = "BlockBox"
          /\ LastPage.children[j].type = "line"
    /\ LastPage.height.v > 0

\* the cursor the last call handed to the block child `id`
StartOf(id) ==
    LET i == CHOOSE i \in StartedWithLayout : lastlog[i].id = id
    IN  lastlog[i].skip_stack

\* a returned cursor at one call level: b the input box, out its output,
\* c the cursor returned and start the cursor the call was given
RECURSIVE ReturnedCursor(_, _, _, _)
ReturnedCursor(b, out, c, start) ==
    c # None =>
        /\ Len(c) = 2
        /\ c[1] \in 0..(Len(b.children) - 1)
        /\ c[1] >= (IF start = None THEN 0 ELSE start[1])
        /\ c[2] # None
        /\ out.children # <<>>
        /\ LET child == b.children[c[1] + 1]
               last == out.children[Len(out.children)]
           IN  /\ child.in_normal_flow
               /\ child.type \in {"LineBox", "BlockBox"}
               /\ child.type = "LineBox" =>
                     /\ last.type = "line" /\ last.of = child.id
                     /\ c[2] = get_next_linebox(
                                   child, last.position_y,
                                   IF last.index = 0 THEN None
                                   ELSE LineCursor(last.index)).resume_at
                     /\ c[2] = LineCursor(last.index + 1)
               /\ child.type = "BlockBox" =>
                     /\ last.type = "BlockBox" /\ last.id = child.id
                     /\ Reached(child.id)
                     /\ ReturnedCursor(child, last, c[2], StartOf(child.id))

\* C19: a cursor returned by block_level_height that is not None is a pair
\* (i, c): i is the index of a normal-flow child at or after the starting
\* index and c is never None; for an inline child c is the cursor the line
\* producer returned after the last fragment placed in this call, for a block
\* child c is the cursor its layout returned, so that every returned cursor
\* ends in an inline-content cursor.
C19_CursorShape ==
    pc = "paging" => /\ cursor # None
                     /\ ReturnedCursor(box0, LastPage, cursor, CallCursor)

\* a resumed call that finishes the block it started in and breaks inside
\* the block after it
C19_Witness ==
    /\ pc = "paging" /\ Len(pages) >= 2
    /\ prevcursor # None /\ cursor[1] > prevcursor[1]
    /\ box0.children[cursor[1] + 1].type = "BlockBox"
    /\ cursor[2][2] # None

BlockInputs == {x \in BoxSet(box0) : x.type = "BlockBox"}

ChildIds(b) == [i \in 1..Len(b.children) |-> b.children[i].id]

\* C20: block_level_height never writes the height or the child sequence of
\* its input box: after any number of calls an input box whose height was
\* auto still has an auto height, and every input box has the same children
\* in the same order.
C20_InputKept ==
    \A x \in BlockInputs :
        /\ BoxOf(box, x.id).height = x.height
        /\ ChildIds(BoxOf(box, x.id)) = ChildIds(x)

\* two pages made from a box with an auto height, each with a height of its
\* own, and a nested block with an auto height on both
C20_Witness ==
    /\ Len(pages) >= 2 /\ ncalls >= 2
    /\ box0.height = Auto
    /\ pages[1].height.v > 0 /\ pages[2].height.v > 0
    /\ pages[1].children # pages[2].children
    /\ \E x \in BlockInputs :
          /\ x.id # box0.id /\ x.height = Auto
          /\ x.id \in Ids(pages[1]) /\ x.id \in Ids(pages[2])

Init == PageInit
Next == PageNext
Spec == Init /\ [][Next]_vars

====
